---- MODULE Spec2Model ----
(***************************************************************************)
(* Model of warp's tracing filters (src/filters/trace.rs).                 *)
(*                                                                         *)
(* A route is a handler wrapped twice, as in examples/tracing.rs:          *)
(*     leaf.with(trace[2]) ... .with(trace[1])                             *)
(* WithTrace 1 is the outer wrapper, WithTrace 2 the inner one, and the    *)
(* filter between them either builds the inner future eagerly, inside the  *)
(* outer filter() call, or defers it to a later poll (as `or` does for its *)
(* second alternative).  Requests are driven by workers; a worker runs one *)
(* filter() or poll() call at a time and has its own stack of entered      *)
(* spans (tracing keeps the current span per thread).                      *)
(***************************************************************************)
EXTENDS Naturals, Sequences, FiniteSets

NumReqs == 2
NumWorkers == 2

Reqs == 1..NumReqs
Workers == 1..NumWorkers
Layers == {1, 2}

VARIABLES
    trace,    \* trace[L]: the Trace decorator (its span factory) of wrapper L
    handler,  \* the terminal results the wrapped handler can produce
    route,    \* route[r]: the ambient Route of request r
    pc,       \* pc[r]: position of the call in progress for request r
    on,       \* on[r]: worker running the call in progress (0: none)
    lastw,    \* lastw[r]: worker that ran the previous, suspended poll (0: none)
    hist,     \* hist[r]: the step of the wrapped computation in progress is in
              \*   the "first" poll, or in one "resumed" on the worker of the
              \*   previous poll, or in one "migrated" to another worker
              \*   ("none": no such step in progress)
    stack,    \* stack[w]: spans entered on worker w, innermost last
    spans,    \* spans[id]: the subscriber's record of span id
    sp,       \* sp[r][L]: span held by wrapper L for request r (0: none)
    fut,      \* fut[r][L]: state of the future returned by wrapper L
    leaf,     \* leaf[r]: state of the inner handler's future
    ret,      \* ret[r]: value being returned by the innermost finished poll
    leafres,  \* leafres[r]: terminal result the inner handler produced
    result,   \* result[r]: what the caller of the outer wrapper received
    log       \* log[r]: what the subscriber observed for request r, in order

vars == <<trace, handler, route, pc, on, lastw, hist, stack, spans, sp, fut, leaf,
          ret, leafres, result, log>>

-----------------------------------------------------------------------------
(* Values *)

NoReply == [kind |-> "none", status |-> 0, body |-> ""]
NoReject == [reason |-> "none"]
NoRes == [tag |-> "none", reply |-> NoReply, reject |-> NoReject]
Pending == [tag |-> "pending", reply |-> NoReply, reject |-> NoReject]
Ok(reply) == [tag |-> "ok", reply |-> reply, reject |-> NoReject]
Err(reject) == [tag |-> "err", reply |-> NoReply, reject |-> reject]

\* replies a handler can return: a &'static str, or reply::with_status
Replies ==
    { [kind |-> "str", status |-> 0, body |-> "Hello, World!"],
      [kind |-> "with_status", status |-> 201, body |-> "created"] }

\* rejections a handler can return
Rejections == { [reason |-> "not_found"], [reason |-> "method_not_allowed"] }

LeafResults == {Ok(x) : x \in Replies} \cup {Err(x) : x \in Rejections}

\* the handler of examples/tracing.rs behind warp::path: "Hello, World!", or
\* the rejection of a path that does not match
HelloResults ==
    { Ok([kind |-> "str", status |-> 0, body |-> "Hello, World!"]),
      Err([reason |-> "not_found"]) }

\* Reply::into_response of the replies above
ReplyIntoResponse(reply) ==
    CASE reply.kind = "str" -> [status |-> 200, body |-> reply.body]
      [] reply.kind = "with_status" -> [status |-> reply.status, body |-> reply.body]
      [] OTHER -> [status |-> 500, body |-> ""]

\* struct Traced(Response)
Traced(resp) == [kind |-> "traced", status |-> resp.status, body |-> resp.body]

\* mutant: Traced forgets the response it wraps and answers with a default one
TracedIntoResponseDefault(reply) == [status |-> 200, body |-> ""]

\* mutant: Traced builds a new response around the body it wraps
TracedIntoResponseRebuilt(reply) == [status |-> 200, body |-> reply.body]

\* impl Reply for Traced: into_response returns the wrapped response
TracedIntoResponse(reply) == [status |-> reply.status, body |-> reply.body]

IntoResponse(reply) ==
    IF reply.kind = "traced" THEN TracedIntoResponse(reply)
    ELSE ReplyIntoResponse(reply)

\* IsReject::status
RejectStatus(reject) ==
    CASE reject.reason = "not_found" -> 404
      [] reject.reason = "method_not_allowed" -> 405
      [] OTHER -> 500

\* Debug rendering of a rejection
RejectDebug(reject) ==
    CASE reject.reason = "not_found" -> "Rejection(NotFound)"
      [] reject.reason = "method_not_allowed" -> "Rejection(MethodNotAllowed)"
      [] OTHER -> "Rejection(Other)"

-----------------------------------------------------------------------------
(* Spans and events *)

NoSpan == [made |-> 0, name |-> "", target |-> "", level |-> "", fields |-> << >>,
           parent |-> 0, owner |-> 0, open |-> FALSE]

SpanIds == 1..(2 * NumReqs)

\* mutant: the span is built once, when the filter is wrapped, and shared by
\* all requests
SharedSpanId(r, L) == L

\* the subscriber hands out a fresh id for every span built; the id is named
\* after the factory call that built it
NewSpanId(r, L) == 2 * (r - 1) + L

\* mutant: path() gives the part of the path still unmatched, which is empty
\* once the route has matched
InfoPathUnmatched(rt) == ""

\* Info accessors
InfoMethod(rt) == rt.method
InfoPath(rt) == rt.path
InfoVersion(rt) == rt.version

\* Display of http::Method, Debug of &str and of http::Version
DisplayMethod(m) == m
DebugStr(s) ==
    CASE s = "/hello" -> "\"/hello\""
      [] s = "/goodbye" -> "\"/goodbye\""
      [] OTHER -> "\"\""
DebugVersion(v) ==
    CASE v = 11 -> "HTTP/1.1"
      [] v = 2 -> "HTTP/2.0"
      [] OTHER -> "HTTP/1.0"

\* request(): info_span!(target: "warp", "request", method, path, version)
RequestSpan(rt) ==
    [name |-> "request", target |-> "warp", level |-> "INFO",
     fields |-> << <<"method", DisplayMethod(InfoMethod(rt))>>,
                   <<"path", DebugStr(InfoPath(rt))>>,
                   <<"version", DebugVersion(InfoVersion(rt))>> >>]

\* context(name): debug_span!(target: "warp", "context", "{}", name)
ContextSpan(name) ==
    [name |-> "context", target |-> "warp", level |-> "DEBUG",
     fields |-> << <<"message", name>> >>]

\* Option<&str>
NoStr == [some |-> FALSE, val |-> ""]
SomeStr(v) == [some |-> TRUE, val |-> v]

\* a header of a request: absent, or a HeaderValue, whose bytes are visible
\* ASCII text or not
NoHeader == [kind |-> "absent", str |-> ""]
TextHeader(v) == [kind |-> "text", str |-> v]
OpaqueHeader == [kind |-> "bytes", str |-> ""]

\* headers().get(name).and_then(|v| v.to_str().ok())
InfoHeader(rt, name) ==
    IF rt.headers[name].kind = "absent" THEN NoStr
    ELSE IF rt.headers[name].kind = "text" THEN SomeStr(rt.headers[name].str)
    ELSE NoStr

\* mutant: host() reads the header referer() reads
InfoHostFromReferer(rt) == InfoHeader(rt, "referer")

InfoReferer(rt) == InfoHeader(rt, "referer")
InfoUserAgent(rt) == InfoHeader(rt, "user-agent")
InfoHost(rt) == InfoHeader(rt, "host")

\* Debug of Option<&str>
DebugOptStr(o) ==
    IF ~o.some THEN "None"
    ELSE CASE o.val = "https://example.com/" -> "Some(\"https://example.com/\")"
           [] o.val = "curl/8.0" -> "Some(\"curl/8.0\")"
           [] o.val = "localhost:3030" -> "Some(\"localhost:3030\")"
           [] OTHER -> "Some(\"\")"

\* a factory given to trace(): tracing::info_span!("request", referer =
\* ?req.referer(), user_agent = ?req.user_agent(), host = ?req.host())
HeadersSpan(rt) ==
    [name |-> "request", target |-> "tracing", level |-> "INFO",
     fields |-> << <<"referer", DebugOptStr(InfoReferer(rt))>>,
                   <<"user_agent", DebugOptStr(InfoUserAgent(rt))>>,
                   <<"host", DebugOptStr(InfoHost(rt))>> >>]

\* mutant: context() adds the path of the request it is given to the span
TraceFuncContextWithPath(t, rt) ==
    IF t.kind = "request" THEN RequestSpan(rt)
    ELSE [ContextSpan(t.name) EXCEPT
              !.fields = Append(@, <<"path", DebugStr(InfoPath(rt))>>)]

\* (self.trace.func)(Info { route })
TraceFunc(t, rt) ==
    IF t.kind = "request" THEN RequestSpan(rt)
    ELSE IF t.kind = "headers" THEN HeadersSpan(rt)
    ELSE ContextSpan(t.name)

Request == [kind |-> "request", name |-> ""]
Headers == [kind |-> "headers", name |-> ""]
Context(name) == [kind |-> "context", name |-> name]

\* the current span of a thread: the innermost entered one
Top(s) == IF Len(s) = 0 THEN 0 ELSE s[Len(s)]

\* Span::enter on a thread
Enter(s, id) == Append(s, id)

\* dropping the Entered guard: the span leaves the thread's stack
Exit(s, id) ==
    LET at == {i \in 1..Len(s) : s[i] = id}
    IN  IF at = {} THEN s
        ELSE LET k == CHOOSE i \in at : \A j \in at : j <= i
             IN  SubSeq(s, 1, k - 1) \o SubSeq(s, k + 1, Len(s))

\* what the subscriber records: a span built, an event, a span closed.  ctx is
\* the current span of the emitting thread (the parent of a new span, the span
\* an event is attributed to), entered the spans entered on that thread
LogNewSpan(L, id, parent, st) ==
    [kind |-> "new_span", site |-> L, span |-> id, ctx |-> parent, entered |-> st,
     level |-> "", msg |-> "", status |-> 0, error |-> ""]
LogClose(L, id) ==
    [kind |-> "close", site |-> L, span |-> id, ctx |-> 0, entered |-> << >>,
     level |-> "", msg |-> "", status |-> 0, error |-> ""]
LogEvent(L, st, level, msg, status, error) ==
    [kind |-> "event", site |-> L, span |-> 0, ctx |-> Top(st), entered |-> st,
     level |-> level, msg |-> msg, status |-> status, error |-> error]

-----------------------------------------------------------------------------
(* Initial states *)

\* warp::trace::context("outer") around warp::trace::context("inner")
NestedContexts == [L \in Layers |-> IF L = 1 THEN Context("outer") ELSE Context("inner")]

\* warp::trace::request() around warp::trace::context("hello")
RequestOverContext == [L \in Layers |-> IF L = 1 THEN Request ELSE Context("hello")]

Routes ==
    { [method |-> "GET", path |-> "/hello", version |-> 11],
      [method |-> "POST", path |-> "/goodbye", version |-> 2] }

RouteOf(r) ==
    IF r % 2 = 1 THEN [method |-> "GET", path |-> "/hello", version |-> 11]
    ELSE [method |-> "POST", path |-> "/goodbye", version |-> 2]

\* warp::trace(headers factory) around warp::trace::context("hello")
HeadersOverContext == [L \in Layers |-> IF L = 1 THEN Headers ELSE Context("hello")]

\* the headers a request may carry: each of the three absent, text, or bytes
\* that are not text
HeaderMaps ==
    { [referer |-> a, ua |-> b, host |-> c] :
        a \in {NoHeader, OpaqueHeader, TextHeader("https://example.com/")},
        b \in {NoHeader, OpaqueHeader, TextHeader("curl/8.0")},
        c \in {NoHeader, OpaqueHeader, TextHeader("localhost:3030")} }

HeaderRoute(h) ==
    [method |-> "GET", path |-> "/hello", version |-> 11,
     headers |-> [n \in {"referer", "user-agent", "host"} |->
                     IF n = "referer" THEN h.referer
                     ELSE IF n = "user-agent" THEN h.ua ELSE h.host]]

\* nothing has run yet
Fresh ==
    /\ on = [r \in Reqs |-> 0]
    /\ lastw = [r \in Reqs |-> 0]
    /\ hist = [r \in Reqs |-> "none"]
    /\ stack = [w \in Workers |-> << >>]
    /\ spans = [id \in SpanIds |-> NoSpan]
    /\ sp = [r \in Reqs |-> [L \in Layers |-> 0]]
    /\ fut = [r \in Reqs |-> [L \in Layers |-> "none"]]
    /\ leaf = [r \in Reqs |-> "none"]
    /\ ret = [r \in Reqs |-> NoRes]
    /\ leafres = [r \in Reqs |-> NoRes]
    /\ result = [r \in Reqs |-> NoRes]
    /\ log = [r \in Reqs |-> << >>]

\* all requests are in flight at once, through context("outer") over
\* context("inner") over the hello handler
Init ==
    /\ trace = NestedContexts
    /\ handler = HelloResults
    /\ route = [r \in Reqs |-> RouteOf(r)]
    /\ pc = [r \in Reqs |-> "new"]
    /\ Fresh

\* one request alone, any route, any handler result, either pair of decorators
InitSolo ==
    /\ trace \in {NestedContexts, RequestOverContext}
    /\ handler = LeafResults
    /\ \E rt \in Routes : route = [r \in Reqs |-> IF r = 1 THEN rt ELSE RouteOf(r)]
    /\ pc = [r \in Reqs |-> IF r = 1 THEN "new" ELSE "absent"]
    /\ Fresh

\* one request alone, with any headers, through a factory that reads them
InitInfo ==
    /\ trace = HeadersOverContext
    /\ handler = HelloResults
    /\ \E h \in HeaderMaps :
           route = [r \in Reqs |-> IF r = 1 THEN HeaderRoute(h) ELSE RouteOf(r)]
    /\ pc = [r \in Reqs |-> IF r = 1 THEN "new" ELSE "absent"]
    /\ Fresh

-----------------------------------------------------------------------------
(* WithTrace::filter *)

WorkerFree(w) == \A r \in Reqs : on[r] # w

FilterPc(L, at) ==
    IF L = 1 THEN (IF at = "inner" THEN "f1_inner" ELSE "f1_exit")
    ELSE (IF at = "inner" THEN "f2_inner" ELSE "f2_exit")

PollPc(L, at) ==
    IF L = 1 THEN (IF at = "inner" THEN "p1_inner" ELSE "p1_exit")
    ELSE (IF at = "inner" THEN "p2_inner" ELSE "p2_exit")

\* a span built by the *_span! macros is a child of the thread's current span
SpanParent(s) == Top(s)

\* the subscriber's record of a newly built span
NewSpan(old, s, parent, r) ==
    [made |-> old.made + 1, name |-> s.name, target |-> s.target, level |-> s.level,
     fields |-> s.fields, parent |-> parent, owner |-> r, open |-> TRUE]

\* mutant: the wrapped filter is called outside the span
InScopeEnterMissing(s, id) == s

\* span.in_scope(|| ...): the span is entered for the closure ...
InScopeEnter(s, id) == Enter(s, id)

\* mutant: the span stays entered on the thread when filter() returns
InScopeExitMissing(s, id) == s

\* ... and exited when the closure returns
InScopeExit(s, id) == Exit(s, id)

\* mutant: no event in filter()
ReceivedEventsMissing(L, st) == << >>

\* tracing::trace!("received request")
ReceivedEvents(L, st) ==
    << LogEvent(L, st, "TRACE", "received request", 0, "") >>

\* mutant: the request is announced first, then the span is built and entered
FilterBeginEventFirst(r, L, w) ==
    LET id == NewSpanId(r, L)
        parent == SpanParent(stack[w])
        st1 == InScopeEnter(stack[w], id)
    IN  /\ spans' = [spans EXCEPT ![id] = NewSpan(@, TraceFunc(trace[L], route[r]), parent, r)]
        /\ sp' = [sp EXCEPT ![r][L] = id]
        /\ stack' = [stack EXCEPT ![w] = st1]
        /\ log' = [log EXCEPT ![r] = (@ \o ReceivedEvents(L, stack[w]))
                                        \o << LogNewSpan(L, id, parent, stack[w]) >>]

\* filter(), from the factory call to the call of the wrapped filter:
\*   let span = route::with(|route| (self.trace.func)(Info { route }));
\*   span.in_scope(|| { tracing::trace!("received request"); self.filter.filter(..)
FilterBegin(r, L, w) ==
    LET id == NewSpanId(r, L)
        parent == SpanParent(stack[w])
        st1 == InScopeEnter(stack[w], id)
    IN  /\ spans' = [spans EXCEPT ![id] = NewSpan(@, TraceFunc(trace[L], route[r]), parent, r)]
        /\ sp' = [sp EXCEPT ![r][L] = id]
        /\ stack' = [stack EXCEPT ![w] = st1]
        /\ log' = [log EXCEPT ![r] = (@ \o << LogNewSpan(L, id, parent, stack[w]) >>)
                                        \o ReceivedEvents(L, st1)]

\* the server routes request r to the outer wrapper on worker w
Filter(r, w) ==
    /\ pc[r] = "new"
    /\ WorkerFree(w)
    /\ FilterBegin(r, 1, w)
    /\ pc' = [pc EXCEPT ![r] = FilterPc(1, "inner")]
    /\ on' = [on EXCEPT ![r] = w]
    /\ UNCHANGED <<trace, handler, route, lastw, hist, fut, leaf, ret, leafres, result>>

\* the wrapped filter of the outer wrapper builds the inner wrapper's future
\* within its own filter() call
InnerEager(r) ==
    /\ pc[r] = FilterPc(1, "inner")
    /\ FilterBegin(r, 2, on[r])
    /\ pc' = [pc EXCEPT ![r] = FilterPc(2, "inner")]
    /\ UNCHANGED <<trace, handler, route, on, lastw, hist, fut, leaf, ret, leafres, result>>

\* ... or leaves it to a later poll (the second alternative of `or`)
InnerDeferred(r) ==
    /\ pc[r] = FilterPc(1, "inner")
    /\ pc' = [pc EXCEPT ![r] = FilterPc(1, "exit")]
    /\ UNCHANGED <<trace, handler, route, on, lastw, hist, stack, spans, sp, fut, leaf,
                   ret, leafres, result, log>>

\* self.filter.filter(Internal) of the inner wrapper: the handler's future
LeafFilter(r) ==
    /\ pc[r] = FilterPc(2, "inner")
    /\ leaf' = [leaf EXCEPT ![r] = "pending"]
    /\ pc' = [pc EXCEPT ![r] = FilterPc(2, "exit")]
    /\ UNCHANGED <<trace, handler, route, on, lastw, hist, stack, spans, sp, fut,
                   ret, leafres, result, log>>

\* filter(), from the end of in_scope: .map(Traced::map_result).instrument(span)
FilterEnd(r, L) ==
    /\ pc[r] = FilterPc(L, "exit")
    /\ stack' = [stack EXCEPT ![on[r]] = InScopeExit(@, sp[r][L])]
    /\ fut' = [fut EXCEPT ![r][L] = "pending"]
    /\ IF L = 1
       THEN /\ pc' = [pc EXCEPT ![r] = "idle"]
            /\ on' = [on EXCEPT ![r] = 0]
       ELSE /\ pc' = [pc EXCEPT ![r] = IF fut[r][1] = "none" THEN FilterPc(1, "exit")
                                       ELSE PollPc(1, "inner")]
            /\ UNCHANGED on
    /\ UNCHANGED <<trace, handler, route, lastw, hist, spans, sp, leaf, ret, leafres,
                   result, log>>

-----------------------------------------------------------------------------
(* Instrumented<Map<F::Future, fn>>::poll *)

\* mutant: the mapped future is returned without .instrument(span)
InstrumentedEnterMissing(s, id) == s

\* Instrumented::poll enters the span for the poll of the future it wraps ...
InstrumentedEnter(s, id) == Enter(s, id)

\* mutant: the span stays entered on the thread when the poll returns
InstrumentedExitMissing(s, id) == s

\* ... and exits it when that poll returns, ready or not
InstrumentedExit(s, id) == Exit(s, id)

\* mutant: a rejection is reported as, and replaced by, an internal error
MapResultRejectRemapped(res) ==
    IF res.tag = "ok"
    THEN LET resp == IntoResponse(res.reply)
         IN  [ret |-> Ok(Traced(resp)), level |-> "DEBUG",
              status |-> resp.status, error |-> ""]
    ELSE [ret |-> Err([reason |-> "internal"]), level |-> "TRACE",
          status |-> 500, error |-> RejectDebug([reason |-> "internal"])]

\* Traced::map_result: the value returned and the event emitted
MapResult(res) ==
    IF res.tag = "ok"
    THEN LET resp == IntoResponse(res.reply)
         IN  [ret |-> Ok(Traced(resp)), level |-> "DEBUG",
              status |-> resp.status, error |-> ""]
    ELSE [ret |-> Err(res.reject), level |-> "TRACE",
          status |-> RejectStatus(res.reject), error |-> RejectDebug(res.reject)]

\* mutant: the wrapper yields once more before it hands on what the wrapped
\* future returned
MapPollRetYields(res) == Pending

\* Map::poll: the function is applied once, when the wrapped future is ready
MapPollRet(res) == IF res.tag = "pending" THEN Pending ELSE MapResult(res).ret

\* mutant: the outcome is logged on every poll, ready or not
MapPollEventsEveryPoll(L, st, res) ==
    << LogEvent(L, st, MapResult(res).level, "", MapResult(res).status,
                MapResult(res).error) >>

MapPollEvents(L, st, res) ==
    IF res.tag = "pending" THEN << >>
    ELSE << LogEvent(L, st, MapResult(res).level, "", MapResult(res).status,
                     MapResult(res).error) >>

\* the executor polls the outer wrapper's future of request r on worker w
Poll(r, w) ==
    /\ pc[r] = "idle"
    /\ fut[r][1] = "pending"
    /\ WorkerFree(w)
    /\ stack' = [stack EXCEPT ![w] = InstrumentedEnter(@, sp[r][1])]
    /\ pc' = [pc EXCEPT ![r] = PollPc(1, "inner")]
    /\ on' = [on EXCEPT ![r] = w]
    /\ hist' = [hist EXCEPT ![r] = IF lastw[r] = 0 THEN "first"
                                   ELSE IF lastw[r] = w THEN "resumed" ELSE "migrated"]
    /\ lastw' = [lastw EXCEPT ![r] = 0]
    /\ UNCHANGED <<trace, handler, route, spans, sp, fut, leaf, ret, leafres, result, log>>

\* the deferring filter is not ready to build the inner future: the poll suspends
FirstPending(r) ==
    /\ pc[r] = PollPc(1, "inner")
    /\ fut[r][2] = "none"
    /\ ret' = [ret EXCEPT ![r] = Pending]
    /\ hist' = [hist EXCEPT ![r] = "none"]
    /\ pc' = [pc EXCEPT ![r] = PollPc(1, "exit")]
    /\ UNCHANGED <<trace, handler, route, on, lastw, stack, spans, sp, fut, leaf,
                   leafres, result, log>>

\* the deferring filter calls the inner wrapper's filter() within the poll
FirstDone(r) ==
    /\ pc[r] = PollPc(1, "inner")
    /\ fut[r][2] = "none"
    /\ FilterBegin(r, 2, on[r])
    /\ pc' = [pc EXCEPT ![r] = FilterPc(2, "inner")]
    /\ UNCHANGED <<trace, handler, route, on, lastw, hist, fut, leaf, ret, leafres, result>>

\* the outer wrapper's future polls the inner wrapper's future
PollInner(r) ==
    /\ pc[r] = PollPc(1, "inner")
    /\ fut[r][2] = "pending"
    /\ stack' = [stack EXCEPT ![on[r]] = InstrumentedEnter(@, sp[r][2])]
    /\ pc' = [pc EXCEPT ![r] = PollPc(2, "inner")]
    /\ UNCHANGED <<trace, handler, route, on, lastw, hist, spans, sp, fut, leaf, ret,
                   leafres, result, log>>

\* tracing::info!("saying hello...") in the closure given to .map, which runs
\* as the handler completes with a reply; a rejection comes from the filters
\* before it (path, method) and the closure does not run
HandlerEvents(st) == << LogEvent(0, st, "INFO", "saying hello...", 0, "") >>

\* a step of the handler's future that suspends
LeafPending(r) ==
    /\ pc[r] = PollPc(2, "inner")
    /\ ret' = [ret EXCEPT ![r] = Pending]
    /\ hist' = [hist EXCEPT ![r] = "none"]
    /\ pc' = [pc EXCEPT ![r] = PollPc(2, "exit")]
    /\ UNCHANGED <<trace, handler, route, on, lastw, stack, spans, sp, fut, leaf,
                   leafres, result, log>>

\* a step of the handler's future that produces its terminal result
LeafReady(r, res) ==
    /\ pc[r] = PollPc(2, "inner")
    /\ res \in handler
    /\ leaf' = [leaf EXCEPT ![r] = "ready"]
    /\ leafres' = [leafres EXCEPT ![r] = res]
    /\ ret' = [ret EXCEPT ![r] = res]
    /\ log' = [log EXCEPT ![r] = IF res.tag = "ok" THEN @ \o HandlerEvents(stack[on[r]])
                                   ELSE @]
    /\ hist' = [hist EXCEPT ![r] = "none"]
    /\ pc' = [pc EXCEPT ![r] = PollPc(2, "exit")]
    /\ UNCHANGED <<trace, handler, route, on, lastw, stack, spans, sp, fut, result>>

\* mutant: a handle of the span outlives the future
CloseSpanLeaked(rec) == rec

\* the last handle of a span is dropped: the subscriber closes the span
CloseSpan(rec) == [rec EXCEPT !.open = FALSE]

\* the spans held by the future that wrapper L's Map wraps: the outer
\* wrapper's Map wraps the inner wrapper's Instrumented future, which holds the
\* inner span; the inner wrapper's Map wraps the handler's future, which holds
\* none
MapWrappedSpans(r, L) == IF L = 1 /\ sp[r][2] # 0 THEN {sp[r][2]} ELSE {}

\* the poll of the wrapped future has returned ret[r]: when it is ready
\* Map::poll drops the wrapped future, closing the spans it holds, and then
\* maps the result; Instrumented::poll exits the span and returns
PollEnd(r, L) ==
    /\ pc[r] = PollPc(L, "exit")
    /\ spans' = [id \in SpanIds |->
                    IF ret[r].tag # "pending" /\ id \in MapWrappedSpans(r, L)
                    THEN CloseSpan(spans[id]) ELSE spans[id]]
    /\ log' = [log EXCEPT ![r] =
                 (@ \o (IF \E id \in MapWrappedSpans(r, L) :
                               spans[id].open /\ ~spans'[id].open
                        THEN << LogClose(2, sp[r][2]) >> ELSE << >>))
                  \o MapPollEvents(L, stack[on[r]], ret[r])]
    /\ stack' = [stack EXCEPT ![on[r]] = InstrumentedExit(@, sp[r][L])]
    /\ fut' = [fut EXCEPT ![r][L] = IF ret[r].tag = "pending" THEN @ ELSE "ready"]
    /\ IF L = 1
       THEN /\ pc' = [pc EXCEPT ![r] = "idle"]
            /\ on' = [on EXCEPT ![r] = 0]
            /\ lastw' = [lastw EXCEPT ![r] = IF ret[r].tag = "pending" THEN on[r] ELSE 0]
            /\ result' = [result EXCEPT ![r] = IF ret[r].tag = "pending" THEN @
                                               ELSE MapPollRet(ret[r])]
            /\ ret' = [ret EXCEPT ![r] = NoRes]
       ELSE /\ pc' = [pc EXCEPT ![r] = PollPc(1, "exit")]
            /\ ret' = [ret EXCEPT ![r] = MapPollRet(@)]
            /\ UNCHANGED <<on, lastw, result>>
    /\ UNCHANGED <<trace, handler, route, hist, sp, leaf, leafres>>

-----------------------------------------------------------------------------
(* Drop *)

\* nothing is emitted when the future is dropped: neither Instrumented nor Map
\* implements Drop
DropEvents(st) == << >>

\* the spans the outer wrapper's future holds: its own and, until its Map has
\* completed and dropped the inner wrapper's future, the inner wrapper's
HeldSpans(r) ==
    {sp[r][L] : L \in {K \in Layers : sp[r][K] # 0 /\ (K = 1 \/ fut[r][1] # "ready")}}

\* the caller drops the outer wrapper's future, complete or not: the futures
\* it wraps and the spans they hold are dropped with it, innermost first
Drop(r) ==
    /\ pc[r] = "idle"
    /\ pc' = [pc EXCEPT ![r] = "dropped"]
    /\ fut' = [fut EXCEPT ![r] = [L \in Layers |-> IF @[L] = "none" THEN "none" ELSE "dropped"]]
    /\ leaf' = [leaf EXCEPT ![r] = IF @ = "none" THEN "none" ELSE "dropped"]
    /\ spans' = [id \in SpanIds |-> IF id \in HeldSpans(r) THEN CloseSpan(spans[id])
                                    ELSE spans[id]]
    /\ log' = [log EXCEPT ![r] =
                 ((@ \o DropEvents(<< >>))
                  \o (IF sp[r][2] # 0 /\ spans[sp[r][2]].open /\ ~spans'[sp[r][2]].open
                      THEN << LogClose(2, sp[r][2]) >> ELSE << >>))
                  \o (IF spans[sp[r][1]].open /\ ~spans'[sp[r][1]].open
                      THEN << LogClose(1, sp[r][1]) >> ELSE << >>)]
    /\ lastw' = [lastw EXCEPT ![r] = 0]
    /\ UNCHANGED <<trace, handler, route, on, hist, stack, sp, ret, leafres, result>>

-----------------------------------------------------------------------------
(* The span factory fails *)

\* mutant: the request is announced before the span is built
BeforeFactoryReceived(L, st) == ReceivedEvents(L, st)

\* filter() up to the factory call: `let span = route::with(..)` is its first
\* statement, nothing is emitted and nothing is entered before it
BeforeFactory(L, st) == << >>

\* what the caller of a call that panicked gets: the panic, no result
Panicked == [tag |-> "panic", reply |-> NoReply, reject |-> NoReject]

\* the outer wrapper's filter() is called on worker w and the factory call
\* panics (no route is set for the thread, or the factory itself panics): the
\* panic leaves filter() at its first statement
FilterFails(r, w) ==
    /\ pc[r] = "new"
    /\ WorkerFree(w)
    /\ log' = [log EXCEPT ![r] = @ \o BeforeFactory(1, stack[w])]
    /\ pc' = [pc EXCEPT ![r] = "failed"]
    /\ result' = [result EXCEPT ![r] = Panicked]
    /\ UNCHANGED <<trace, handler, route, on, lastw, hist, stack, spans, sp, fut, leaf,
                   ret, leafres>>

\* the factory call of the inner wrapper panics and the panic unwinds through
\* the outer wrapper to the caller, the guard of the outer span exiting it.
\* In the outer wrapper's filter() the span is a local, dropped and closed by
\* the unwinding, and no future is returned.  In a poll the caller still owns
\* the future, and with it the outer span, which stays open until the caller
\* drops the future
InnerFilterFails(r) ==
    /\ pc[r] \in {FilterPc(1, "inner"), PollPc(1, "inner")}
    /\ fut[r][2] = "none"
    /\ stack' = [stack EXCEPT ![on[r]] = Exit(@, sp[r][1])]
    /\ IF fut[r][1] = "none"
       THEN /\ spans' = [spans EXCEPT ![sp[r][1]] = CloseSpan(@)]
            /\ log' = [log EXCEPT ![r] =
                         (@ \o BeforeFactory(2, stack[on[r]]))
                          \o (IF spans[sp[r][1]].open /\ ~spans'[sp[r][1]].open
                              THEN << LogClose(1, sp[r][1]) >> ELSE << >>)]
            /\ pc' = [pc EXCEPT ![r] = "failed"]
            /\ UNCHANGED fut
       ELSE /\ log' = [log EXCEPT ![r] = @ \o BeforeFactory(2, stack[on[r]])]
            /\ pc' = [pc EXCEPT ![r] = "idle"]
            /\ fut' = [fut EXCEPT ![r][1] = "failed"]
            /\ UNCHANGED spans
    /\ result' = [result EXCEPT ![r] = Panicked]
    /\ on' = [on EXCEPT ![r] = 0]
    /\ hist' = [hist EXCEPT ![r] = "none"]
    /\ UNCHANGED <<trace, handler, route, lastw, sp, leaf, ret, leafres>>

-----------------------------------------------------------------------------

Next ==
    \/ \E r \in Reqs, w \in Workers : Filter(r, w)
    \/ \E r \in Reqs : InnerEager(r)
    \/ \E r \in Reqs : InnerDeferred(r)
    \/ \E r \in Reqs : LeafFilter(r)
    \/ \E r \in Reqs, L \in Layers : FilterEnd(r, L)
    \/ \E r \in Reqs, w \in Workers : Poll(r, w)
    \/ \E r \in Reqs : FirstPending(r)
    \/ \E r \in Reqs : FirstDone(r)
    \/ \E r \in Reqs : PollInner(r)
    \/ \E r \in Reqs : LeafPending(r)
    \/ \E r \in Reqs, res \in LeafResults : LeafReady(r, res)
    \/ \E r \in Reqs, L \in Layers : PollEnd(r, L)
    \/ \E r \in Reqs : Drop(r)

\* concurrent requests
Spec == Init /\ [][Next]_vars

\* one request
SpecSolo == InitSolo /\ [][Next]_vars

\* one request, whose span factories may fail
NextFaulty ==
    \/ Next
    \/ \E r \in Reqs, w \in Workers : FilterFails(r, w)
    \/ \E r \in Reqs : InnerFilterFails(r)

SpecFaulty == InitSolo /\ [][NextFaulty]_vars

\* one request, whose span factory reads the request's headers
SpecInfo == InitInfo /\ [][Next]_vars

\* the caller drops the future once it has returned its result
DropDone(r) ==
    /\ fut[r][1] = "ready"
    /\ Drop(r)

\* a caller that never abandons a request
NextLive ==
    \/ \E r \in Reqs, w \in Workers : Filter(r, w)
    \/ \E r \in Reqs : InnerEager(r)
    \/ \E r \in Reqs : InnerDeferred(r)
    \/ \E r \in Reqs : LeafFilter(r)
    \/ \E r \in Reqs, L \in Layers : FilterEnd(r, L)
    \/ \E r \in Reqs, w \in Workers : Poll(r, w)
    \/ \E r \in Reqs : FirstPending(r)
    \/ \E r \in Reqs : FirstDone(r)
    \/ \E r \in Reqs : PollInner(r)
    \/ \E r \in Reqs : LeafPending(r)
    \/ \E r \in Reqs, res \in LeafResults : LeafReady(r, res)
    \/ \E r \in Reqs, L \in Layers : PollEnd(r, L)
    \/ \E r \in Reqs : DropDone(r)

\* the caller keeps calling and resuming (every call in progress goes on, a
\* pending future is polled again); the wrapped computation suspends only
\* finitely often: the deferring filter ends up building the inner future and
\* the handler ends up producing its result
Fairness ==
    /\ WF_vars(NextLive)
    /\ \A r \in Reqs : SF_vars(FirstDone(r))
    /\ \A r \in Reqs : SF_vars(\E res \in LeafResults : LeafReady(r, res))

\* one request, resumed until it completes
SpecLive == InitSolo /\ [][NextLive]_vars /\ Fairness

-----------------------------------------------------------------------------
(* Properties *)

Entries(r) == {log[r][i] : i \in 1..Len(log[r])}
Elems(s) == {s[i] : i \in 1..Len(s)}
Count(r, P(_)) == Cardinality({i \in 1..Len(log[r]) : P(log[r][i])})

IsNewSpan(e, L) == e.kind = "new_span" /\ e.site = L
IsReceived(e, L) == e.kind = "event" /\ e.site = L /\ e.msg = "received request"
IsOutcome(e, L) == e.kind = "event" /\ e.site = L /\ e.msg = ""
IsHandlerEvent(e) == e.kind = "event" /\ e.site = 0
IsClose(e, L) == e.kind = "close" /\ e.site = L

NumNewSpan(r, L) == LET P(e) == IsNewSpan(e, L) IN Count(r, P)
NumReceived(r, L) == LET P(e) == IsReceived(e, L) IN Count(r, P)
NumOutcome(r, L) == LET P(e) == IsOutcome(e, L) IN Count(r, P)

HasField(fs, name) == \E i \in 1..Len(fs) : fs[i][1] = name

\* the call in progress is inside wrapper L's wrapped computation: building it
\* in filter(), or in a poll of it
InnerBuilding(r, L) ==
    IF L = 1 THEN pc[r] \in {"f1_inner", "f2_inner", "f2_exit"} /\ fut[r][1] = "none"
    ELSE pc[r] = "f2_inner"
InnerPolling(r, L) ==
    IF L = 1 THEN \/ pc[r] \in {"p1_inner", "p2_inner", "p2_exit"}
                  \/ pc[r] \in {"f2_inner", "f2_exit"} /\ fut[r][1] = "pending"
    ELSE pc[r] = "p2_inner"
InnerProgress(r, L) == InnerBuilding(r, L) \/ InnerPolling(r, L)

\* wrapper L's filter() has been called for request r
Routed(r, L) ==
    IF L = 1 THEN pc[r] \notin {"absent", "new"}
    ELSE leaf[r] # "none" \/ pc[r] = "f2_inner"

\* the caller dropped the future before it produced a result
Abandoned(r) == pc[r] = "dropped" /\ result[r].tag = "none"

\* C1: whenever the computation wrapped by a wrapper is making progress (being
\* built in filter(), in its first poll or in a later one), the wrapper's span
\* is entered on the worker running the call, and the innermost wrapper's span
\* is that worker's current span; the handler's event is emitted inside both
SpanCoversInnerProgress ==
    \A r \in Reqs :
        /\ \A L \in Layers :
             InnerProgress(r, L) =>
                 /\ on[r] \in Workers
                 /\ sp[r][L] # 0
                 /\ sp[r][L] \in Elems(stack[on[r]])
        /\ InnerProgress(r, 2) => Top(stack[on[r]]) = sp[r][2]
        /\ \A e \in Entries(r) :
             IsHandlerEvent(e) =>
                 /\ e.ctx = sp[r][2]
                 /\ e.ctx # 0
                 /\ sp[r][1] \in Elems(e.entered)

\* a handler is about to step in a poll that resumes it after a suspension
ResumedStepUnderSpan ==
    \E r \in Reqs :
        /\ pc[r] = "p2_inner"
        /\ hist[r] \in {"resumed", "migrated"}
        /\ stack[on[r]] = <<sp[r][1], sp[r][2]>>

\* C2: a wrapper never builds more than one span nor emits more than one
\* "received request" for a request, and has built exactly one span and emitted
\* exactly one "received request" once its filter() was called, whatever
\* happens to the request afterwards
OneSpanOneReceived ==
    \A r \in Reqs : \A L \in Layers :
        /\ NumNewSpan(r, L) <= 1
        /\ NumReceived(r, L) <= 1
        /\ Routed(r, L) =>
             /\ NumNewSpan(r, L) = 1
             /\ NumReceived(r, L) = 1
             /\ sp[r][L] # 0
             /\ spans[sp[r][L]].made = 1
        /\ ~Routed(r, L) => NumNewSpan(r, L) = 0 /\ NumReceived(r, L) = 0

\* one request was abandoned and another one rejected, each with its one span
\* and one "received request" per wrapper
AbandonedAndRejectedCounted ==
    \E r1 \in Reqs, r2 \in Reqs :
        /\ Abandoned(r1)
        /\ result[r2].tag = "err"
        /\ \A L \in Layers : NumNewSpan(r2, L) = 1 /\ NumReceived(r2, L) = 1
        /\ NumNewSpan(r1, 1) = 1 /\ NumReceived(r1, 1) = 1

\* C3 as stated: every request that is over has produced exactly one outcome
\* event
EveryRequestOneOutcome ==
    \A r \in Reqs : pc[r] = "dropped" => NumOutcome(r, 1) = 1

\* C3, amended: a wrapper emits at most one outcome event for a request, none
\* before the handler has produced its terminal result, exactly one once the
\* wrapper's future has completed, at debug level for a reply and at trace
\* level for a rejection
OutcomeOnceAfterResult ==
    \A r \in Reqs : \A L \in Layers :
        /\ NumOutcome(r, L) <= 1
        /\ NumOutcome(r, L) = 1 => leafres[r].tag \in {"ok", "err"}
        /\ fut[r][L] = "ready" => NumOutcome(r, L) = 1
        /\ result[r].tag # "none" => NumOutcome(r, L) = 1
        /\ \A e \in Entries(r) :
             IsOutcome(e, L) =>
                 e.level = (IF leafres[r].tag = "ok" THEN "DEBUG" ELSE "TRACE")

\* a request completed with a rejection and each wrapper emitted its one
\* trace-level outcome event
RejectedOutcomeEmitted ==
    \E r \in Reqs :
        /\ result[r].tag = "err"
        /\ \A L \in Layers :
             /\ NumOutcome(r, L) = 1
             /\ \E e \in Entries(r) : IsOutcome(e, L) /\ e.level = "TRACE"

\* C4: when a request completes with a rejection, each wrapper's outcome event
\* records the status code of the rejection the handler produced and a
\* non-empty rendering of it, and the caller receives that very rejection, not
\* wrapped in a reply
RejectionRecordedAndUntouched ==
    \A r \in Reqs :
        /\ leafres[r].tag = "err" =>
             \A L \in Layers : \A e \in Entries(r) :
                 IsOutcome(e, L) =>
                     /\ e.status = RejectStatus(leafres[r].reject)
                     /\ e.error # ""
                     /\ e.error = RejectDebug(leafres[r].reject)
        /\ leafres[r].tag = "err" /\ pc[r] = "p1_exit" => ret[r] = leafres[r]
        /\ result[r].tag = "err" => result[r] = leafres[r]
        /\ leafres[r].tag = "err" /\ result[r].tag # "none" => result[r].tag = "err"

\* a request was rejected with 405 Method Not Allowed and both wrappers
\* recorded it
MethodNotAllowedRecorded ==
    \E r \in Reqs :
        /\ result[r] = Err([reason |-> "method_not_allowed"])
        /\ \A L \in Layers :
             \E e \in Entries(r) : IsOutcome(e, L) /\ e.status = 405 /\ e.error # ""

\* C5: when a request completes with a reply, each wrapper's outcome event
\* records the status code of the response the handler's reply materializes
\* into, and the Traced reply the caller receives materializes into that same
\* response, status and body
ReplyStatusRecordedAndExposed ==
    \A r \in Reqs :
        /\ leafres[r].tag = "ok" =>
             \A L \in Layers : \A e \in Entries(r) :
                 IsOutcome(e, L) =>
                     /\ e.status = ReplyIntoResponse(leafres[r].reply).status
                     /\ e.error = ""
        /\ result[r].tag = "ok" =>
             /\ leafres[r].tag = "ok"
             /\ result[r].reply.kind = "traced"
             /\ IntoResponse(result[r].reply) = ReplyIntoResponse(leafres[r].reply)
        /\ leafres[r].tag = "ok" /\ result[r].tag # "none" => result[r].tag = "ok"

\* a request completed with the 201 reply, recorded by both wrappers and
\* exposed by the Traced reply
CreatedRecordedAndExposed ==
    \E r \in Reqs :
        /\ result[r].tag = "ok"
        /\ IntoResponse(result[r].reply) = [status |-> 201, body |-> "created"]
        /\ \A L \in Layers : \E e \in Entries(r) : IsOutcome(e, L) /\ e.status = 201

\* C6: once a future has been dropped before producing a result, no wrapper
\* has emitted an outcome event for the request, nothing was emitted for the
\* drop itself (the last thing logged before the spans close is not an event
\* of the drop), every span built for the request is closed and entered on no
\* worker, and the caller has no result
AbandonedSilentAndClosed ==
    \A r \in Reqs :
        Abandoned(r) =>
            /\ \A L \in Layers : NumOutcome(r, L) = 0
            /\ \A e \in Entries(r) : e.kind = "event" => e.status = 0 /\ e.error = ""
            /\ \A L \in Layers :
                 sp[r][L] # 0 =>
                     /\ ~spans[sp[r][L]].open
                     /\ \E e \in Entries(r) : IsClose(e, L) /\ e.span = sp[r][L]
                     /\ \A w \in Workers : sp[r][L] \notin Elems(stack[w])
            /\ \A i \in 1..Len(log[r]) : \A j \in 1..Len(log[r]) :
                 log[r][i].kind = "close" /\ log[r][j].kind = "event" => j < i
            /\ result[r] = NoRes

\* a future was dropped before completing, after the handler's future had been
\* built, and both its spans are closed
AbandonedWithHandlerBuilt ==
    \E r \in Reqs :
        /\ Abandoned(r)
        /\ leaf[r] = "dropped"
        /\ sp[r][1] # 0 /\ sp[r][2] # 0
        /\ ~spans[sp[r][1]].open /\ ~spans[sp[r][2]].open

\* C7: with context("outer") wrapped around context("inner"), whenever the
\* inner wrapper has built its span there are two spans named "context" for
\* the request, with fields "outer" and "inner", and the outer wrapper's span
\* is the parent of the inner wrapper's span
OuterIsParentOfInner ==
    \A r \in Reqs :
        /\ trace = NestedContexts /\ sp[r][1] # 0 =>
             /\ spans[sp[r][1]].name = "context"
             /\ spans[sp[r][1]].fields = << <<"message", "outer">> >>
        /\ trace = NestedContexts /\ sp[r][2] # 0 =>
             /\ sp[r][1] # 0
             /\ sp[r][1] # sp[r][2]
             /\ spans[sp[r][2]].name = "context"
             /\ spans[sp[r][2]].fields = << <<"message", "inner">> >>
             /\ spans[sp[r][2]].parent = sp[r][1]
             /\ \A e \in Entries(r) : IsNewSpan(e, 2) => e.ctx = sp[r][1]

\* the inner wrapper has just built its span in a poll that resumed the outer
\* computation after a suspension
InnerSpanBuiltAfterResumption ==
    \E r \in Reqs :
        /\ trace = NestedContexts
        /\ pc[r] = "f2_inner"
        /\ hist[r] \in {"resumed", "migrated"}
        /\ spans[sp[r][2]].parent = sp[r][1]

\* C8: the spans of different requests are different spans, each built once
\* for its request, and every event logged for a request (the wrappers'
\* "received request" and outcome events, the handler's event) is attributed
\* to the span of the wrapper that emitted it (the innermost wrapper's for the
\* handler) for that same request, with only spans of that request entered
EventsAttributedToOwnSpan ==
    /\ \A r1 \in Reqs, r2 \in Reqs : \A L1 \in Layers, L2 \in Layers :
         sp[r1][L1] # 0 /\ <<r1, L1>> # <<r2, L2>> => sp[r1][L1] # sp[r2][L2]
    /\ \A r \in Reqs : \A L \in Layers :
         sp[r][L] # 0 => spans[sp[r][L]].owner = r /\ spans[sp[r][L]].made = 1
    /\ \A r \in Reqs : \A e \in Entries(r) :
         /\ e.kind = "event" =>
              /\ e.ctx # 0
              /\ e.ctx = sp[r][IF e.site = 0 THEN 2 ELSE e.site]
              /\ spans[e.ctx].owner = r
         /\ \A id \in Elems(e.entered) : id \in {sp[r][L] : L \in Layers}
         /\ e.kind = "new_span" /\ e.ctx # 0 => e.ctx \in {sp[r][L] : L \in Layers}

\* two requests are in the middle of a handler step at the same time, on
\* different workers, each under its own spans
TwoRequestsStepping ==
    \E r1 \in Reqs, r2 \in Reqs :
        /\ r1 # r2
        /\ pc[r1] = "p2_inner" /\ pc[r2] = "p2_inner"
        /\ on[r1] # on[r2]
        /\ Top(stack[on[r1]]) = sp[r1][2]
        /\ Top(stack[on[r2]]) = sp[r2][2]
        /\ sp[r1][2] # sp[r2][2]

\* C9: while a call for a request runs on a worker, the request's spans are
\* entered on no other worker, and during a poll each wrapper's span is entered
\* on the worker running it for as long as that wrapper's poll lasts, whichever
\* worker ran the previous poll; while no call for the request runs, its spans
\* are entered on no worker
NoThreadAffinity ==
    \A r \in Reqs : \A L \in Layers :
        sp[r][L] # 0 =>
            /\ \A w \in Workers : w # on[r] => sp[r][L] \notin Elems(stack[w])
            /\ fut[r][1] = "pending" /\ L = 1 /\ pc[r] # "idle" =>
                 on[r] \in Workers /\ sp[r][L] \in Elems(stack[on[r]])
            /\ L = 2 /\ pc[r] \in {"p2_inner", "p2_exit"} =>
                 on[r] \in Workers /\ Top(stack[on[r]]) = sp[r][L]

\* a handler is about to step in a poll running on another worker than the
\* previous poll, under its spans, the other workers having none of them
MigratedStepUnderSpan ==
    \E r \in Reqs :
        /\ pc[r] = "p2_inner"
        /\ hist[r] = "migrated"
        /\ stack[on[r]] = <<sp[r][1], sp[r][2]>>
        /\ \A w \in Workers : w # on[r] => sp[r][1] \notin Elems(stack[w])

\* C10: once a wrapper's future has completed, the outcome is attached to the
\* wrapper's span itself: the fields of the span include response.status and,
\* after a rejection, response.error
OutcomeFieldsOnSpan ==
    \A r \in Reqs : \A L \in Layers :
        fut[r][L] = "ready" =>
            /\ HasField(spans[sp[r][L]].fields, "response.status")
            /\ leafres[r].tag = "err" =>
                   HasField(spans[sp[r][L]].fields, "response.error")

\* C11: when the span factory of a wrapper fails, the call fails and the
\* caller gets the failure, no result, and the request goes no further: that
\* wrapper has built no span, has entered none, has emitted neither "received
\* request" nor an outcome, the computation it wraps was never built or
\* stepped, no wrapper emits an outcome, no span of the request is left
\* entered, and none is left open but the outer span held by a future the
\* caller has yet to drop
FactoryFailureStopsTheCall ==
    \A r \in Reqs :
        /\ pc[r] = "failed" => result[r].tag = "panic"
        /\ result[r].tag = "panic" =>
            LET L == IF sp[r][1] = 0 THEN 1 ELSE 2
            IN  /\ pc[r] \in {"failed", "idle", "dropped"} /\ on[r] = 0
                /\ pc[r] = "idle" => fut[r][1] = "failed"
                /\ \A K \in Layers : K >= L =>
                       /\ sp[r][K] = 0 /\ fut[r][K] = "none"
                       /\ \A e \in Entries(r) : e.site # K
                /\ leaf[r] = "none" /\ leafres[r].tag = "none"
                /\ \A e \in Entries(r) : ~IsHandlerEvent(e)
                /\ \A K \in Layers : NumOutcome(r, K) = 0
                /\ \A id \in SpanIds : spans[id].owner = r /\ spans[id].open =>
                       pc[r] = "idle" /\ id = sp[r][1]
                /\ \A w \in Workers : \A K \in Layers :
                       sp[r][K] # 0 => sp[r][K] \notin Elems(stack[w])

\* the inner wrapper's factory failed in a poll, after the outer wrapper had
\* announced the request and handed its future to the caller, and the caller
\* has dropped the future of the failed poll
InnerFactoryFailedInPoll ==
    \E r \in Reqs :
        /\ pc[r] = "dropped" /\ result[r].tag = "panic"
        /\ NumReceived(r, 1) = 1 /\ sp[r][2] = 0
        /\ \E e \in Entries(r) : IsClose(e, 1)

\* C12: a span built by request() has the name "request", the target "warp"
\* and info severity, and exactly the three fields method, path and version,
\* in this order, holding the method, the full path and the protocol version
\* of the request it was built for; the span keeps these values, not the
\* request view, for as long as it exists
RequestSpanDescribesRequest ==
    \A r \in Reqs :
        trace[1].kind = "request" /\ sp[r][1] # 0 =>
            LET s == spans[sp[r][1]]
            IN  /\ s.name = "request" /\ s.target = "warp" /\ s.level = "INFO"
                /\ Len(s.fields) = 3
                /\ s.fields[1] = <<"method", route[r].method>>
                /\ s.fields[2] = <<"path", IF route[r].path = "/hello" THEN "\"/hello\""
                                           ELSE "\"/goodbye\"">>
                /\ s.fields[3] = <<"version", IF route[r].version = 11 THEN "HTTP/1.1"
                                              ELSE "HTTP/2.0">>

\* the span of a POST /goodbye HTTP/2 request, after the request completed
PostGoodbyeSpanBuilt ==
    \E r \in Reqs :
        /\ trace[1].kind = "request" /\ sp[r][1] # 0 /\ fut[r][1] = "ready"
        /\ route[r] = [method |-> "POST", path |-> "/goodbye", version |-> 2]

\* the levels of tracing in order of priority, the least important first
Severity(level) ==
    CASE level = "TRACE" -> 1
      [] level = "DEBUG" -> 2
      [] level = "INFO" -> 3
      [] level = "WARN" -> 4
      [] OTHER -> 5

\* C13: a span built by context(name) has the name "context", the target
\* "warp", debug severity, which is of strictly lower priority than the info
\* severity of request() spans, and the single field holding the constant
\* name; the spans it builds for two requests, whatever their method, path and
\* version, have the same name, level and fields
ContextSpanIgnoresRequest ==
    /\ \A r \in Reqs : \A L \in Layers :
           trace[L].kind = "context" /\ sp[r][L] # 0 =>
               LET s == spans[sp[r][L]]
               IN  /\ s.name = "context" /\ s.target = "warp" /\ s.level = "DEBUG"
                   /\ Severity(s.level) < Severity(RequestSpan(route[r]).level)
                   /\ s.fields = << <<"message", trace[L].name>> >>
    /\ \A r1 \in Reqs : \A r2 \in Reqs : \A L \in Layers :
           trace[L].kind = "context" /\ sp[r1][L] # 0 /\ sp[r2][L] # 0 =>
               /\ spans[sp[r1][L]].name = spans[sp[r2][L]].name
               /\ spans[sp[r1][L]].level = spans[sp[r2][L]].level
               /\ spans[sp[r1][L]].fields = spans[sp[r2][L]].fields

\* two requests that differ in method, path and version, each with its
\* context("inner") span built
TwoRoutesOneContext ==
    \E r1 \in Reqs : \E r2 \in Reqs :
        /\ route[r1].method # route[r2].method /\ route[r1].path # route[r2].path
        /\ route[r1].version # route[r2].version
        /\ trace[2].kind = "context" /\ sp[r1][2] # 0 /\ sp[r2][2] # 0

\* C14: referer(), user_agent() and host() always return: each gives the
\* value of its own header if that header is present and is text, and no
\* value if it is absent or is not text, whatever the other headers hold
HeaderAccessorsTotalAndOwn ==
    \A r \in Reqs :
        trace[1].kind = "headers" /\ pc[r] \notin {"absent", "new"} =>
            LET s == spans[sp[r][1]]
                h == route[r].headers
            IN  /\ sp[r][1] # 0 /\ Len(s.fields) = 3
                /\ s.fields[1] = <<"referer",
                                   IF h["referer"].kind = "text"
                                   THEN "Some(\"https://example.com/\")" ELSE "None">>
                /\ s.fields[2] = <<"user_agent",
                                   IF h["user-agent"].kind = "text"
                                   THEN "Some(\"curl/8.0\")" ELSE "None">>
                /\ s.fields[3] = <<"host",
                                   IF h["host"].kind = "text"
                                   THEN "Some(\"localhost:3030\")" ELSE "None">>

\* a request with a textual host, a referer that is not text and no user
\* agent, whose span has been built
MixedHeadersRead ==
    \E r \in Reqs :
        /\ trace[1].kind = "headers" /\ sp[r][1] # 0
        /\ route[r].headers["host"] = TextHeader("localhost:3030")
        /\ route[r].headers["referer"] = OpaqueHeader
        /\ route[r].headers["user-agent"] = NoHeader

\* what the computation wrapped by wrapper L has the subscriber record: the
\* handler's events and, for the outer wrapper, the inner wrapper's span and
\* events
IsInnerRecord(e, L) ==
    \/ e.site = 0
    \/ L = 1 /\ e.site = 2 /\ e.kind # "close"

\* C15: for every request and wrapper the order is fixed: the span is built
\* while not yet entered, "received request" is emitted after that with the
\* span entered and current, everything the wrapped computation records comes
\* after "received request" and before the outcome event, the outcome event is
\* emitted with the span still entered and current, after the wrapped
\* computation's last step, and the span closes after everything else of the
\* wrapper
FixedOrderPerRequest ==
    \A r \in Reqs : \A L \in Layers :
        LET lg == log[r]
            I == 1..Len(lg)
            new == {i \in I : IsNewSpan(lg[i], L)}
            rcv == {i \in I : IsReceived(lg[i], L)}
            inn == {i \in I : IsInnerRecord(lg[i], L)}
            out == {i \in I : IsOutcome(lg[i], L)}
            cls == {i \in I : IsClose(lg[i], L)}
        IN  /\ \A i \in new : /\ lg[i].span = sp[r][L]
                               /\ sp[r][L] \notin Elems(lg[i].entered)
                               /\ \A j \in rcv : i < j
            /\ \A j \in rcv : /\ lg[j].ctx = sp[r][L]
                               /\ new # {}
                               /\ \A k \in inn : j < k
            /\ \A k \in inn : rcv # {} /\ \A o \in out : k < o
            /\ \A o \in out : /\ lg[o].ctx = sp[r][L]
                               /\ rcv # {}
                               /\ \A c \in cls : o < c
            /\ \A c \in cls : \A i \in new \cup rcv \cup out : i < c
            /\ InnerProgress(r, L) => rcv # {} /\ out = {} /\ cls = {}
            /\ out # {} => leaf[r] \in {"ready", "dropped"} /\ leafres[r].tag # "none"

\* a request that ran to completion through both wrappers and was dropped
CompletedAndClosed ==
    \E r \in Reqs :
        /\ pc[r] = "dropped" /\ result[r].tag = "ok"
        /\ \E e \in Entries(r) : IsHandlerEvent(e)
        /\ \A L \in Layers : /\ NumOutcome(r, L) = 1
                               /\ \E e \in Entries(r) : IsClose(e, L)

\* the status a terminal result carries
StatusOf(res) ==
    IF res.tag = "ok" THEN IntoResponse(res.reply).status
    ELSE IF res.tag = "err" THEN RejectStatus(res.reject) ELSE 0

\* C16: a step of a wrapper's future is one step of the future it wraps: when
\* that step has returned the wrapper returns too, without stepping it again,
\* suspended if and only if it suspended, and complete, with a result of the
\* same kind and status, in the very step in which it completed; so the
\* caller sees the handler's suspensions and its terminal outcome, no more and
\* no less
WrapperStepIsInnerStep ==
    [][\A r \in Reqs :
        /\ pc[r] = "p2_exit" => pc'[r] = "p1_exit"
        /\ pc[r] = "p1_exit" => pc'[r] = "idle"
        /\ pc[r] = "p2_exit" =>
               /\ ret[r].tag = "pending" <=> leaf[r] # "ready"
               /\ ret'[r].tag = ret[r].tag
               /\ StatusOf(ret'[r]) = StatusOf(ret[r])
               /\ fut'[r][2] = "ready" <=> ret[r].tag # "pending"
        /\ pc[r] = "p1_exit" =>
               /\ ret[r].tag = "pending" <=> leaf[r] # "ready"
               /\ fut'[r][1] = "ready" <=> ret[r].tag # "pending"
               /\ result'[r].tag = (IF ret[r].tag = "pending" THEN "none" ELSE ret[r].tag)
               /\ ret[r].tag # "pending" =>
                      /\ result'[r].tag = leafres[r].tag
                      /\ StatusOf(result'[r]) = StatusOf(leafres[r])
        /\ pc[r] = "idle" => (fut[r][1] = "ready" <=> leaf[r] = "ready")
      ]_vars

\* the handler has completed with a reply in a resumed step and the inner
\* wrapper has handed the result to the outer one
ResultHandedUp ==
    \E r \in Reqs :
        /\ pc[r] = "p1_exit" /\ ret[r].tag = "ok" /\ leaf[r] = "ready"
        /\ fut[r][1] = "pending"

\* C17: entering and leaving a span are balanced around every call: while a
\* call of a request runs on a worker, the worker's stack of entered spans
\* holds exactly the spans of the wrappers the call is inside, outermost
\* first; when no call runs on a worker its stack is what it was before the
\* call, empty; and no span of a request is entered anywhere while the request
\* is between calls (after filter() returned, suspended, complete or dropped)
SpanEntryBalanced ==
    /\ \A w \in Workers : WorkerFree(w) => stack[w] = << >>
    /\ \A r \in Reqs :
           /\ on[r] # 0 <=> pc[r] \in {"f1_inner", "f2_inner", "f2_exit", "f1_exit",
                                       "p1_inner", "p2_inner", "p2_exit", "p1_exit"}
           /\ pc[r] \in {"f1_inner", "f1_exit", "p1_inner", "p1_exit"} =>
                  stack[on[r]] = << sp[r][1] >>
           /\ pc[r] \in {"f2_inner", "f2_exit", "p2_inner", "p2_exit"} =>
                  stack[on[r]] = << sp[r][1], sp[r][2] >>
           /\ on[r] = 0 =>
                  \A w \in Workers : \A L \in Layers :
                      sp[r][L] # 0 => sp[r][L] \notin Elems(stack[w])

\* a request is suspended and the worker that ran its last step now runs a
\* step of another request, with that request's span alone on its stack
WorkerReusedWhileSuspended ==
    \E r1 \in Reqs : \E r2 \in Reqs :
        /\ r1 # r2
        /\ pc[r1] = "idle" /\ fut[r1][1] = "pending" /\ lastw[r1] # 0
        /\ on[r2] = lastw[r1] /\ pc[r2] = "p1_inner"
        /\ stack[on[r2]] = << sp[r2][1] >>

\* the caller has the handler's result, every wrapper has emitted its outcome
\* event once and every span of the request is closed
ReturnedAndClosed(r) ==
    /\ pc[r] = "dropped"
    /\ leafres[r].tag \in {"ok", "err"}
    /\ result[r].tag = leafres[r].tag
    /\ StatusOf(result[r]) = StatusOf(leafres[r])
    /\ result[r].tag = "err" => result[r].reject = leafres[r].reject
    /\ \A L \in Layers : /\ NumOutcome(r, L) = 1
                           /\ sp[r][L] # 0 /\ ~spans[sp[r][L]].open

\* C18: if the caller keeps resuming a request it has routed to the wrapper
\* and the wrapped computation suspends only finitely often, then eventually
\* the caller has the wrapped computation's result, each wrapper has emitted
\* its outcome event and the request's spans are closed
EventuallyReturnedAndClosed ==
    \A r \in Reqs : (pc[r] = "f1_inner") ~> ReturnedAndClosed(r)

\* a request that ended in a rejection, handed to the caller, with its spans
\* closed
RejectionReturnedAndClosed ==
    \E r \in Reqs : ReturnedAndClosed(r) /\ result[r].tag = "err"

\* C19: with one wrapper around another the records of a request are well
\* nested: the outer wrapper's "received request" precedes the inner one's,
\* the inner wrapper's outcome event precedes the outer one's, the inner
\* wrapper's events and the handler's are emitted with both spans entered, the
\* outer one outermost, and the outer wrapper's events with the outer span
\* alone entered
NestedEventsWellNested ==
    \A r \in Reqs :
        LET lg == log[r]
            I == 1..Len(lg)
        IN  /\ \A i \in I : IsReceived(lg[i], 2) =>
                   \E j \in 1..(i - 1) : IsReceived(lg[j], 1)
            /\ \A i \in I : IsOutcome(lg[i], 1) =>
                   \E j \in 1..(i - 1) : IsOutcome(lg[j], 2)
            /\ \A i \in I : IsOutcome(lg[i], 2) =>
                   /\ \E j \in 1..(i - 1) : IsReceived(lg[j], 2)
                   /\ \A j \in 1..(i - 1) : ~IsOutcome(lg[j], 1)
            /\ \A i \in I : lg[i].kind = "event" /\ lg[i].site \in {0, 2} =>
                   lg[i].entered = << sp[r][1], sp[r][2] >>
            /\ \A i \in I : lg[i].kind = "event" /\ lg[i].site = 1 =>
                   lg[i].entered = << sp[r][1] >>
            /\ \A i \in I : IsNewSpan(lg[i], 2) => lg[i].entered = << sp[r][1] >>

\* request() around context("hello") around the handler, as in the example:
\* the request has completed and both wrappers have emitted both their events
ExampleNestingCompleted ==
    \E r \in Reqs :
        /\ trace = RequestOverContext /\ pc[r] = "idle" /\ result[r].tag = "ok"
        /\ \A L \in Layers : NumReceived(r, L) = 1 /\ NumOutcome(r, L) = 1

\* C20: a wrapper around a wrapper changes nothing of the result: when the
\* inner wrapper hands a reply to the outer one, the outer wrapper returns a
\* reply that materializes into the same response, and when it hands on a
\* rejection the outer one returns that rejection; the outcome events of the
\* two wrappers carry the same level, status and error
InstrumentationIdempotent ==
    [][\A r \in Reqs :
        pc[r] = "p1_exit" /\ ret[r].tag \in {"ok", "err"} =>
            /\ ret[r].tag = "ok" =>
                   /\ ret[r].reply.kind = "traced"
                   /\ result'[r].tag = "ok"
                   /\ result'[r].reply.kind = "traced"
                   /\ IntoResponse(result'[r].reply) = IntoResponse(ret[r].reply)
                   /\ IntoResponse(result'[r].reply) = ReplyIntoResponse(leafres[r].reply)
            /\ ret[r].tag = "err" =>
                   /\ result'[r].tag = "err"
                   /\ result'[r].reject = ret[r].reject
                   /\ result'[r].reject = leafres[r].reject
            /\ \E i \in 1..Len(log'[r]) : \E j \in 1..Len(log'[r]) :
                   /\ IsOutcome(log'[r][i], 1) /\ IsOutcome(log'[r][j], 2)
                   /\ log'[r][i].status = log'[r][j].status
                   /\ log'[r][i].level = log'[r][j].level
                   /\ log'[r][i].error = log'[r][j].error
                   /\ log'[r][i].status = StatusOf(leafres[r])
      ]_vars

\* "Hello, World!" has gone through both wrappers: each has recorded 200 and
\* the caller holds a reply that materializes into the handler's response
HelloTracedTwice ==
    \E r \in Reqs :
        /\ pc[r] = "idle" /\ result[r].tag = "ok"
        /\ IntoResponse(result[r].reply) = [status |-> 200, body |-> "Hello, World!"]
        /\ \A L \in Layers : \E e \in Entries(r) : IsOutcome(e, L) /\ e.status = 200
====
